---------------------------- MODULE Spec2Model ----------------------------
(***************************************************************************)
(* Model of the extraction event stream consumer of extractcode            *)
(* (src/src/extractcode/cli.py): the extractcode command, its two closures *)
(* extract_event and display_extract_summary, and get_relative_path.       *)
(*                                                                         *)
(* Text is modelled as a sequence of one-character strings; a message or a *)
(* literal of the code ('Extracting: ') is one element of such a sequence. *)
(* A path value is a record [uni, chars]: uni tells a text (unicode)       *)
(* string from a byte string, chars are its characters.                    *)
(***************************************************************************)
EXTENDS Integers, Sequences, FiniteSets, TLC

\* Longest event stream the extraction engine emits in one run.
MaxEvents == 3

\* Longest path given to get_relative_path and extract_event when they are
\* exercised on their own.
MaxPathLen == 4

-----------------------------------------------------------------------------
(* Python values *)

\* has_extract_errors holds either the boolean False or a list of errors
\* (the value of "has_extract_errors or xev.errors").
PyBool(b) == [tag |-> "bool", b |-> b, items |-> <<>>]
PyList(s) == [tag |-> "list", b |-> FALSE, items |-> s]

\* Python truth value: False and the empty list are falsy.
Truthy(v) == IF v.tag = "bool" THEN v.b ELSE v.items # <<>>

\* Python "a or b" returns a when a is truthy, b otherwise.
PyOr(a, b) == IF Truthy(a) THEN a ELSE b

\* Python "s and x or ''" on strings.
PyAndOr(s, x) == IF s # <<>> /\ x # <<>> THEN x ELSE <<>>

-----------------------------------------------------------------------------
(* Text helpers of commoncode used by the command *)

\* toascii(s, translit=True).decode('utf-8', 'replace'): every character
\* that is not ASCII is replaced by a close ASCII approximation.
toascii(chars) ==
    [i \in DOMAIN chars |-> IF chars[i] = "e_acute" THEN "e" ELSE chars[i]]

\* fileutils.as_posixpath: back slashes become forward slashes; the string
\* type is kept.
as_posixpath(source) ==
    [uni |-> source.uni,
     chars |-> [i \in DOMAIN source.chars |->
                   IF source.chars[i] = "\\" THEN "/" ELSE source.chars[i]]]

RECURSIVE lstrip(_)
\* str.lstrip('/'): every leading '/' is removed.
lstrip(s) == IF s # <<>> /\ Head(s) = "/" THEN lstrip(Tail(s)) ELSE s

RECURSIVE rstrip(_)
\* str.rstrip('/'): every trailing '/' is removed.
rstrip(s) ==
    IF s # <<>> /\ s[Len(s)] = "/" THEN rstrip(SubSeq(s, 1, Len(s) - 1)) ELSE s

\* fileutils.file_name: the last segment of the path, trailing '/' ignored.
file_name(path) ==
    LET p == rstrip(path)
        slashes == {i \in DOMAIN p : p[i] = "/"}
        last == IF slashes = {} THEN 0
                ELSE CHOOSE i \in slashes : \A j \in slashes : j <= i
    IN SubSeq(p, last + 1, Len(p))

\* Python slice s[n:] for n >= 0 (empty when n >= len(s)).
SliceFrom(s, n) == SubSeq(s, n + 1, Len(s))

-----------------------------------------------------------------------------
(* get_relative_path, cli.py 219-231 *)

get_relative_path_nostrip(path, len_base_path, base_is_dir) ==
    IF base_is_dir THEN SliceFrom(path, len_base_path) ELSE file_name(path)

get_relative_path_always_slice(path, len_base_path, base_is_dir) ==
    lstrip(SliceFrom(path, len_base_path))

\* path is text here: both callers decode the source before the call, and
\* fsdecode returns a text string unchanged.
get_relative_path(path, len_base_path, base_is_dir) ==
    LET rel_path == IF base_is_dir
                    THEN SliceFrom(path, len_base_path)
                    ELSE file_name(path)
    IN lstrip(rel_path)

-----------------------------------------------------------------------------
(* extract_event, cli.py 139-158 *)

\* Lines 147-149: the source as text.
SourceText(source) ==
    IF source.uni THEN source.chars ELSE toascii(source.chars)

extract_event_showdone(item, quiet, verbose, len_base_path, base_is_dir) ==
    IF quiet THEN <<>>
    ELSE IF item = <<>> THEN <<>>
    ELSE LET source == SourceText(item[1].source)
             line == IF verbose
                     THEN PyAndOr(source, get_relative_path(source, len_base_path, base_is_dir))
                     ELSE PyAndOr(source, file_name(source))
         IN <<"Extracting: ">> \o line

\* item is <<>> for None and <<xev>> for an event.  The result is <<>> for
\* the empty string.
extract_event(item, quiet, verbose, len_base_path, base_is_dir) ==
    IF quiet THEN <<>>
    ELSE IF item = <<>> THEN <<>>
    ELSE LET source == SourceText(item[1].source)
         IN IF verbose /\ item[1].done THEN <<>>
            ELSE LET line == IF verbose
                             THEN PyAndOr(source, get_relative_path(source, len_base_path, base_is_dir))
                             ELSE PyAndOr(source, file_name(source))
                 IN <<"Extracting: ">> \o line

-----------------------------------------------------------------------------
(* display_extract_summary, cli.py 160-185 *)

\* Lines 170-173: the source shown in the ERROR and WARNING lines.  The
\* relative path is computed inside the "if not isinstance(source, unicode)"
\* block, so only for a source that is not a text string.
SummarySource(xev, len_base_path, base_is_dir) ==
    LET source == as_posixpath(xev.source)
    IN IF source.uni
       THEN source.chars
       ELSE get_relative_path(toascii(source.chars), len_base_path, base_is_dir)

EventLines_warnings_first(xev, len_base_path, base_is_dir) ==
    LET source == SummarySource(xev, len_base_path, base_is_dir)
    IN [i \in DOMAIN xev.warnings |->
           [text |-> <<"WARNING extracting: ">> \o source \o <<": ", xev.warnings[i]>>,
            fg |-> "yellow"]]
       \o
       [i \in DOMAIN xev.errors |->
           [text |-> <<"ERROR extracting: ">> \o source \o <<": ", xev.errors[i]>>,
            fg |-> "red"]]

\* Lines 174-177: the ERROR lines of one event, then its WARNING lines.
EventLines(xev, len_base_path, base_is_dir) ==
    LET source == SummarySource(xev, len_base_path, base_is_dir)
    IN [i \in DOMAIN xev.errors |->
           [text |-> <<"ERROR extracting: ">> \o source \o <<": ", xev.errors[i]>>,
            fg |-> "red"]]
       \o
       [i \in DOMAIN xev.warnings |->
           [text |-> <<"WARNING extracting: ">> \o source \o <<": ", xev.warnings[i]>>,
            fg |-> "yellow"]]

RECURSIVE SummaryLines(_, _, _)
\* Line 167: the loop over extract_result_with_errors.
SummaryLines(events, len_base_path, base_is_dir) ==
    IF events = <<>> THEN <<>>
    ELSE EventLines(Head(events), len_base_path, base_is_dir)
         \o SummaryLines(Tail(events), len_base_path, base_is_dir)

summary_color_warnings_first(events) ==
    LET has_errors == \E i \in DOMAIN events : events[i].errors # <<>>
        has_warnings == \E i \in DOMAIN events : events[i].warnings # <<>>
    IN IF has_warnings THEN "yellow" ELSE IF has_errors THEN "red" ELSE "green"

summary_color_last_event(events) ==
    LET n == Len(events)
        has_errors == n > 0 /\ events[n].errors # <<>>
        has_warnings == n > 0 /\ events[n].warnings # <<>>
    IN IF has_errors THEN "red" ELSE IF has_warnings THEN "yellow" ELSE "green"

\* Lines 164-169 and 179-183.
summary_color(events) ==
    LET has_errors == \E i \in DOMAIN events : events[i].errors # <<>>
        has_warnings == \E i \in DOMAIN events : events[i].warnings # <<>>
    IN IF has_errors THEN "red" ELSE IF has_warnings THEN "yellow" ELSE "green"

display_extract_summary(events, len_base_path, base_is_dir) ==
    SummaryLines(events, len_base_path, base_is_dir)
    \o <<[text |-> <<"Extracting done.">>, fg |-> summary_color(events)]>>

-----------------------------------------------------------------------------
(* The inputs of a run *)

Sources ==
    {[uni |-> TRUE, chars |-> <<"/", "a", "/", "f">>],
     [uni |-> FALSE, chars |-> <<"/", "a", "/", "e_acute">>]}

\* The events the extraction engine may emit.
Events ==
    [source : Sources, done : BOOLEAN,
     warnings : {<<>>, <<"w1">>}, errors : {<<>>, <<"e1", "e2">>}]

RECURSIVE SeqsUpTo(_, _)
\* All sequences over S of length at most n.
SeqsUpTo(S, n) ==
    IF n = 0 THEN {<<>>}
    ELSE LET shorter == SeqsUpTo(S, n - 1)
         IN shorter \cup {Append(s, x) : s \in {t \in shorter : Len(t) = n - 1}, x \in S}

\* The input location and what the file system says about it: a directory
\* tree, or a single file.
Inputs ==
    {[abs_location |-> <<"/", "a">>, is_dir |-> TRUE],
     [abs_location |-> <<"/", "a", "/", "f">>, is_dir |-> FALSE]}

-----------------------------------------------------------------------------
(* State *)

VARIABLES
    pc,                 \* "Initializing", "Streaming", "Finalized" or "Rejected"
    quiet, verbose,     \* the --quiet and --verbose options
    input_ok,           \* the input path exists and is readable (line 118)
    abs_location,       \* line 137
    input_is_dir,       \* what filetype.is_dir answers for abs_location
    stream,             \* the events extract_archives yields in this run
    pos,                \* how many of them the loop has consumed
    len_base_path,      \* line 188
    base_is_dir,        \* line 189
    extract_result_with_errors,         \* line 191
    unique_extract_events_with_errors,  \* line 192
    has_extract_errors,                 \* line 193
    out,                \* the lines written to stderr, each [text, fg]
    rc,                 \* <<>> until ctx.exit(rc), then <<rc>>
    prev,               \* <<>>, or <<what is kept of the run made before this one>>
    call                \* a call of extract_event or get_relative_path on its own

vars == <<pc, quiet, verbose, input_ok, abs_location, input_is_dir, stream, pos,
          len_base_path, base_is_dir, extract_result_with_errors,
          unique_extract_events_with_errors, has_extract_errors, out, rc,
          prev, call>>

options == <<quiet, verbose, input_ok, abs_location, input_is_dir, stream>>
base_path == <<len_base_path, base_is_dir>>
aggregate == <<extract_result_with_errors, unique_extract_events_with_errors,
               has_extract_errors>>

NoCall ==
    [fn |-> "none", item |-> <<>>, quiet |-> FALSE, verbose |-> FALSE,
     path |-> <<>>, len_base_path |-> 0, base_is_dir |-> FALSE,
     returned |-> FALSE, result |-> <<>>]

\* The command has been invoked and its body has not run yet.
Invoked ==
    /\ pc = "Initializing"
    /\ pos = 0
    /\ len_base_path = 0
    /\ base_is_dir = FALSE
    /\ extract_result_with_errors = <<>>
    /\ unique_extract_events_with_errors = {}
    /\ has_extract_errors = PyBool(FALSE)
    /\ out = <<>>
    /\ rc = <<>>
    /\ prev = <<>>

Init ==
    /\ Invoked
    /\ quiet \in BOOLEAN
    /\ verbose \in BOOLEAN
    /\ \E i \in Inputs : abs_location = i.abs_location /\ input_is_dir = i.is_dir
    /\ stream \in SeqsUpTo(Events, MaxEvents)
    /\ input_ok = TRUE
    /\ call = NoCall

-----------------------------------------------------------------------------
(* The run, cli.py 187-216 *)

\* Line 199.
Banner == [text |-> <<"Extracting archives...">>, fg |-> "green"]

\* Lines 200-201: the progress manager shows the line item_show_func returns
\* for the current item, when there is one.
ShowItem(shown, xev) ==
    LET line == extract_event(<<xev>>, quiet, verbose, len_base_path, base_is_dir)
    IN IF line = <<>> THEN shown ELSE Append(shown, [text |-> line, fg |-> "none"])

repr_source_only(xev) == <<"ExtractEvent", xev.source>>

\* repr(xev): the text of the whole event.
repr(xev) == <<"ExtractEvent", xev.source, xev.done, xev.warnings, xev.errors>>

IsFailure_any_event(xev) == xev.warnings # <<>> \/ xev.errors # <<>>

\* Lines 204 and 212.
IsFailure(xev) == xev.done /\ (xev.warnings # <<>> \/ xev.errors # <<>>)

UpdateErrors_with_warnings(has_errors, xev) ==
    PyOr(has_errors, PyList(xev.errors \o xev.warnings))

UpdateErrors_overwrite(has_errors, xev) == PyList(xev.errors)

\* Lines 205 and 213.
UpdateErrors(has_errors, xev) == PyOr(has_errors, PyList(xev.errors))

Start_banner_always ==
    /\ pc = "Initializing"
    /\ input_ok
    /\ pc' = "Streaming"
    /\ len_base_path' = Len(abs_location)
    /\ base_is_dir' = input_is_dir
    /\ extract_result_with_errors' = <<>>
    /\ unique_extract_events_with_errors' = {}
    /\ has_extract_errors' = PyBool(FALSE)
    /\ pos' = 0
    /\ out' = Append(out, Banner)
    /\ UNCHANGED <<options, rc, prev, call>>

Start_unchecked_input ==
    /\ pc = "Initializing"
    /\ pc' = "Streaming"
    /\ len_base_path' = Len(abs_location)
    /\ base_is_dir' = input_is_dir
    /\ extract_result_with_errors' = <<>>
    /\ unique_extract_events_with_errors' = {}
    /\ has_extract_errors' = PyBool(FALSE)
    /\ pos' = 0
    /\ out' = IF quiet THEN out ELSE Append(out, Banner)
    /\ UNCHANGED <<options, rc, prev, call>>

Start_keeps_aggregate ==
    /\ pc = "Initializing"
    /\ input_ok
    /\ pc' = "Streaming"
    /\ len_base_path' = Len(abs_location)
    /\ base_is_dir' = input_is_dir
    /\ pos' = 0
    /\ out' = IF quiet THEN out ELSE Append(out, Banner)
    /\ UNCHANGED <<options, aggregate, rc, prev, call>>

\* Lines 137 and 188-199: the base path, the fresh aggregate, the call of
\* extract_archives and, unless quiet, the banner.  The body of the command
\* runs only for an input that passed click.Path(exists=True, readable=True)
\* of line 118.
Start ==
    /\ pc = "Initializing"
    /\ input_ok
    /\ pc' = "Streaming"
    /\ len_base_path' = Len(abs_location)
    /\ base_is_dir' = input_is_dir
    /\ extract_result_with_errors' = <<>>
    /\ unique_extract_events_with_errors' = {}
    /\ has_extract_errors' = PyBool(FALSE)
    /\ pos' = 0
    /\ out' = IF quiet THEN out ELSE Append(out, Banner)
    /\ UNCHANGED <<options, rc, prev, call>>

LoopStep_no_dedup ==
    /\ pc = "Streaming"
    /\ ~quiet
    /\ pos < Len(stream)
    /\ LET xev == stream[pos + 1]
       IN /\ out' = ShowItem(out, xev)
          /\ IF IsFailure(xev)
             THEN /\ has_extract_errors' = UpdateErrors(has_extract_errors, xev)
                  /\ extract_result_with_errors' =
                        Append(extract_result_with_errors, xev)
                  /\ unique_extract_events_with_errors' =
                        unique_extract_events_with_errors \cup {repr(xev)}
             ELSE UNCHANGED aggregate
    /\ pos' = pos + 1
    /\ UNCHANGED <<pc, options, base_path, rc, prev, call>>

LoopStep_prepend ==
    /\ pc = "Streaming"
    /\ ~quiet
    /\ pos < Len(stream)
    /\ LET xev == stream[pos + 1]
       IN /\ out' = ShowItem(out, xev)
          /\ IF IsFailure(xev)
             THEN /\ has_extract_errors' = UpdateErrors(has_extract_errors, xev)
                  /\ IF repr(xev) \notin unique_extract_events_with_errors
                     THEN /\ extract_result_with_errors' =
                                <<xev>> \o extract_result_with_errors
                          /\ unique_extract_events_with_errors' =
                                unique_extract_events_with_errors \cup {repr(xev)}
                     ELSE UNCHANGED <<extract_result_with_errors,
                                      unique_extract_events_with_errors>>
             ELSE UNCHANGED aggregate
    /\ pos' = pos + 1
    /\ UNCHANGED <<pc, options, base_path, rc, prev, call>>

LoopStep_stops_on_error ==
    /\ pc = "Streaming"
    /\ ~quiet
    /\ pos < Len(stream)
    /\ stream[pos + 1].errors = <<>>
    /\ LET xev == stream[pos + 1]
       IN /\ out' = ShowItem(out, xev)
          /\ IF IsFailure(xev)
             THEN /\ has_extract_errors' = UpdateErrors(has_extract_errors, xev)
                  /\ IF repr(xev) \notin unique_extract_events_with_errors
                     THEN /\ extract_result_with_errors' =
                                Append(extract_result_with_errors, xev)
                          /\ unique_extract_events_with_errors' =
                                unique_extract_events_with_errors \cup {repr(xev)}
                     ELSE UNCHANGED <<extract_result_with_errors,
                                      unique_extract_events_with_errors>>
             ELSE UNCHANGED aggregate
    /\ pos' = pos + 1
    /\ UNCHANGED <<pc, options, base_path, rc, prev, call>>

LoopStep_forgets_signature ==
    /\ pc = "Streaming"
    /\ ~quiet
    /\ pos < Len(stream)
    /\ LET xev == stream[pos + 1]
       IN /\ out' = ShowItem(out, xev)
          /\ IF IsFailure(xev)
             THEN /\ has_extract_errors' = UpdateErrors(has_extract_errors, xev)
                  /\ IF repr(xev) \notin unique_extract_events_with_errors
                     THEN /\ extract_result_with_errors' =
                                Append(extract_result_with_errors, xev)
                          /\ UNCHANGED unique_extract_events_with_errors
                     ELSE UNCHANGED <<extract_result_with_errors,
                                      unique_extract_events_with_errors>>
             ELSE UNCHANGED aggregate
    /\ pos' = pos + 1
    /\ UNCHANGED <<pc, options, base_path, rc, prev, call>>

\* Lines 203-208: one iteration of the loop of the branch that is not quiet.
LoopStep ==
    /\ pc = "Streaming"
    /\ ~quiet
    /\ pos < Len(stream)
    /\ LET xev == stream[pos + 1]
       IN /\ out' = ShowItem(out, xev)
          /\ IF IsFailure(xev)
             THEN /\ has_extract_errors' = UpdateErrors(has_extract_errors, xev)
                  /\ IF repr(xev) \notin unique_extract_events_with_errors
                     THEN /\ extract_result_with_errors' =
                                Append(extract_result_with_errors, xev)
                          /\ unique_extract_events_with_errors' =
                                unique_extract_events_with_errors \cup {repr(xev)}
                     ELSE UNCHANGED <<extract_result_with_errors,
                                      unique_extract_events_with_errors>>
             ELSE UNCHANGED aggregate
    /\ pos' = pos + 1
    /\ UNCHANGED <<pc, options, base_path, rc, prev, call>>

QuietLoopStep_not_only_done ==
    /\ pc = "Streaming"
    /\ quiet
    /\ pos < Len(stream)
    /\ LET xev == stream[pos + 1]
       IN IF xev.warnings # <<>> \/ xev.errors # <<>>
          THEN has_extract_errors' = UpdateErrors(has_extract_errors, xev)
          ELSE UNCHANGED has_extract_errors
    /\ pos' = pos + 1
    /\ UNCHANGED <<pc, options, base_path, extract_result_with_errors,
                   unique_extract_events_with_errors, out, rc, prev, call>>

\* Lines 211-213: one iteration of the loop of the quiet branch.
QuietLoopStep ==
    /\ pc = "Streaming"
    /\ quiet
    /\ pos < Len(stream)
    /\ LET xev == stream[pos + 1]
       IN IF IsFailure(xev)
          THEN has_extract_errors' = UpdateErrors(has_extract_errors, xev)
          ELSE UNCHANGED has_extract_errors
    /\ pos' = pos + 1
    /\ UNCHANGED <<pc, options, base_path, extract_result_with_errors,
                   unique_extract_events_with_errors, out, rc, prev, call>>

Finalize_before_exhaustion ==
    /\ pc = "Streaming"
    /\ pos <= Len(stream)
    /\ pc' = "Finalized"
    /\ out' = IF quiet THEN out
              ELSE out \o display_extract_summary(extract_result_with_errors,
                                                  len_base_path, base_is_dir)
    /\ rc' = <<IF Truthy(has_extract_errors) THEN 1 ELSE 0>>
    /\ UNCHANGED <<options, pos, base_path, aggregate, prev, call>>

\* Lines 209 and 215-216: the stream is exhausted; the summary unless quiet,
\* then the exit status.
Finalize ==
    /\ pc = "Streaming"
    /\ pos = Len(stream)
    /\ pc' = "Finalized"
    /\ out' = IF quiet THEN out
              ELSE out \o display_extract_summary(extract_result_with_errors,
                                                  len_base_path, base_is_dir)
    /\ rc' = <<IF Truthy(has_extract_errors) THEN 1 ELSE 0>>
    /\ UNCHANGED <<options, pos, base_path, aggregate, prev, call>>

Next == Start \/ LoopStep \/ QuietLoopStep \/ Finalize

Spec == Init /\ [][Next]_vars

-----------------------------------------------------------------------------
(* The command run a second time on the same input with the other --quiet *)

\* Line 129, entered again: the engine yields the same events for the same
\* input; only --quiet differs.  The run that ended is kept in prev.
InvokeOtherQuiet ==
    /\ pc = "Finalized"
    /\ prev = <<>>
    /\ prev' = <<[stream |-> stream, quiet |-> quiet, verbose |-> verbose,
                  abs_location |-> abs_location, rc |-> rc[1], out |-> out]>>
    /\ quiet' = ~quiet
    /\ pc' = "Initializing"
    /\ out' = <<>>
    /\ rc' = <<>>
    /\ UNCHANGED <<verbose, input_ok, abs_location, input_is_dir, stream, pos,
                   base_path, aggregate, call>>

NextQuietPair == Next \/ InvokeOtherQuiet

SpecQuietPair == Init /\ [][NextQuietPair]_vars

-----------------------------------------------------------------------------
(* Runs on short streams, with an input that may not exist *)

\* Longest event stream of the runs of the specifications below.
MaxShortEvents == 2

ShortRun ==
    /\ Invoked
    /\ quiet \in BOOLEAN
    /\ verbose \in BOOLEAN
    /\ \E i \in Inputs : abs_location = i.abs_location /\ input_is_dir = i.is_dir
    /\ stream \in SeqsUpTo(Events, MaxShortEvents)
    /\ call = NoCall

InitShort == ShortRun /\ input_ok = TRUE

\* The command is straight-line, single-threaded code over a finite stream:
\* a step that can be taken is taken.
SpecLive == InitShort /\ [][Next]_vars /\ WF_vars(Next)

InitInput == ShortRun /\ input_ok \in BOOLEAN

\* Line 118: click.Path(exists=True, readable=True) refuses the input; click
\* reports the usage error on stderr and exits with status 2 without calling
\* the body of the command.
Reject ==
    /\ pc = "Initializing"
    /\ ~input_ok
    /\ pc' = "Rejected"
    /\ out' = Append(out, [text |-> <<"Error: Invalid value for <input>">>,
                           fg |-> "none"])
    /\ rc' = <<2>>
    /\ UNCHANGED <<options, pos, base_path, aggregate, prev, call>>

NextInput == Next \/ Reject

SpecInput == InitInput /\ [][NextInput]_vars

-----------------------------------------------------------------------------
(* The command invoked twice in one process *)

\* Longest event stream of the first of the two runs.
MaxFirstEvents == 1

InitFirst ==
    /\ Invoked
    /\ quiet \in BOOLEAN
    /\ verbose \in BOOLEAN
    /\ \E i \in Inputs : abs_location = i.abs_location /\ input_is_dir = i.is_dir
    /\ stream \in SeqsUpTo(Events, MaxFirstEvents)
    /\ input_ok = TRUE
    /\ call = NoCall

\* Line 129, entered again with the same options: the engine yields another
\* stream.  What the first run left in the variables of the command stays
\* until the body assigns them; the output and the exit status are observed
\* per run.
InvokeAgain ==
    /\ pc = "Finalized"
    /\ prev = <<>>
    /\ prev' = <<[rc |-> rc[1]]>>
    /\ stream' \in SeqsUpTo(Events, MaxShortEvents)
    /\ pc' = "Initializing"
    /\ out' = <<>>
    /\ rc' = <<>>
    /\ UNCHANGED <<quiet, verbose, input_ok, abs_location, input_is_dir, pos,
                   base_path, aggregate, call>>

NextTwice == Next \/ InvokeAgain

SpecTwice == InitFirst /\ [][NextTwice]_vars

-----------------------------------------------------------------------------
(* extract_event and get_relative_path called on their own *)

PathChars == {"/", "a", "e_acute"}

Paths == SeqsUpTo(PathChars, MaxPathLen)

\* len(abs_location) is any length, also one longer than the path.
BaseLengths == 0 .. (MaxPathLen + 1)

Items ==
    {<<>>} \cup
    {<<[source |-> [uni |-> u, chars |-> p], done |-> d,
        warnings |-> <<>>, errors |-> <<>>]>> :
        u \in BOOLEAN, p \in Paths, d \in BOOLEAN}

PendingCalls ==
    {[NoCall EXCEPT !.fn = "get_relative_path", !.path = p,
                    !.len_base_path = n, !.base_is_dir = b] :
        p \in Paths, n \in BaseLengths, b \in BOOLEAN}
    \cup
    {[NoCall EXCEPT !.fn = "extract_event", !.item = it, !.quiet = m[1],
                    !.verbose = m[2], !.len_base_path = n, !.base_is_dir = b] :
        it \in Items, m \in BOOLEAN \X BOOLEAN, n \in BaseLengths, b \in BOOLEAN}

InitCalls ==
    /\ Invoked
    /\ quiet = FALSE
    /\ verbose = FALSE
    /\ abs_location = <<>>
    /\ input_is_dir = FALSE
    /\ stream = <<>>
    /\ input_ok = TRUE
    /\ call \in PendingCalls

\* Lines 219-231, the call returns.
ReturnGetRelativePath ==
    /\ call.fn = "get_relative_path"
    /\ ~call.returned
    /\ call' = [call EXCEPT !.returned = TRUE,
                            !.result = get_relative_path(call.path,
                                           call.len_base_path, call.base_is_dir)]
    /\ UNCHANGED <<pc, options, pos, base_path, aggregate, out, rc, prev>>

\* Lines 139-158, the call returns.
ReturnExtractEvent ==
    /\ call.fn = "extract_event"
    /\ ~call.returned
    /\ call' = [call EXCEPT !.returned = TRUE,
                            !.result = extract_event(call.item, call.quiet,
                                           call.verbose, call.len_base_path,
                                           call.base_is_dir)]
    /\ UNCHANGED <<pc, options, pos, base_path, aggregate, out, rc, prev>>

NextCalls == ReturnGetRelativePath \/ ReturnExtractEvent

SpecCalls == InitCalls /\ [][NextCalls]_vars

-----------------------------------------------------------------------------
(* Properties *)

\* The stream holds a terminal event with a non-empty errors list.
TerminalError(s) == \E i \in DOMAIN s : s[i].done /\ s[i].errors # <<>>

\* A terminal event that carries warnings or errors.
TerminalFailure(e) == e.done /\ (e.warnings # <<>> \/ e.errors # <<>>)

\* The index at which the event e first arrives in the stream s.
FirstArrival(s, e) ==
    CHOOSE i \in DOMAIN s : s[i] = e /\ \A j \in 1 .. (i - 1) : s[j] # e

\* C1: the exit status is 1 exactly when the stream holds an event with
\* done = true and a non-empty errors list, and 0 otherwise, whatever quiet
\* and verbose are and whatever warnings the events carry.
C1_ExitStatus ==
    pc = "Finalized" => rc = <<IF TerminalError(stream) THEN 1 ELSE 0>>

\* A run has exited whose terminal events carry warnings and no errors.
C1_Witness ==
    /\ pc = "Finalized"
    /\ ~TerminalError(stream)
    /\ \E i \in DOMAIN stream : stream[i].done /\ stream[i].warnings # <<>>

\* C2: in the final summary's list every terminal event with warnings or
\* errors of the stream appears exactly once, in the order of first arrival,
\* and nothing else appears; two such events of one source with different
\* errors or warnings are both in the list.
C2_DedupFirstArrival ==
    (pc = "Finalized" /\ ~quiet) =>
        LET f == extract_result_with_errors
        IN /\ \A i \in DOMAIN stream :
                 TerminalFailure(stream[i]) =>
                     Cardinality({k \in DOMAIN f : f[k] = stream[i]}) = 1
           /\ \A k \in DOMAIN f :
                 TerminalFailure(f[k]) /\ \E i \in DOMAIN stream : stream[i] = f[k]
           /\ \A k1, k2 \in DOMAIN f :
                 k1 < k2 => FirstArrival(stream, f[k1]) < FirstArrival(stream, f[k2])

\* The summary has been shown for a stream in which a failing terminal event
\* arrived twice, around another failing terminal event of the same source
\* with other content.
C2_Witness ==
    /\ pc = "Finalized"
    /\ ~quiet
    /\ Len(stream) = 3
    /\ TerminalFailure(stream[1])
    /\ stream[3] = stream[1]
    /\ TerminalFailure(stream[2])
    /\ stream[2].source = stream[1].source
    /\ stream[2] # stream[1]

\* C3: a run and the run on the same stream with the other setting of quiet
\* (and the same other options) end with the same exit status.
C3_QuietInvariance ==
    (/\ pc = "Finalized"
     /\ prev # <<>>
     /\ prev[1].stream = stream
     /\ prev[1].verbose = verbose
     /\ prev[1].abs_location = abs_location
     /\ prev[1].quiet # quiet) => rc = <<prev[1].rc>>

\* Both runs have ended on a stream with an error-bearing terminal event
\* and an error-bearing event that is not terminal.
C3_Witness ==
    /\ pc = "Finalized"
    /\ prev # <<>>
    /\ prev[1].quiet # quiet
    /\ TerminalError(stream)
    /\ \E i \in DOMAIN stream : ~stream[i].done /\ stream[i].errors # <<>>

\* C4: consuming an event with done = false, or with no warnings and no
\* errors, leaves the failures list, the seen signatures and the error flag
\* as they were; no event with done = false is ever in the failures list.
C4_IgnoredEvents ==
    /\ [][(/\ pc = "Streaming"
           /\ pos < Len(stream)
           /\ pos' = pos + 1
           /\ ~TerminalFailure(stream[pos + 1])) => UNCHANGED aggregate]_vars
    /\ [](\A k \in DOMAIN extract_result_with_errors :
              extract_result_with_errors[k].done)

\* An event with done = false and errors has just been consumed, and the run
\* has seen nothing else.
C4_Witness ==
    /\ pc = "Streaming"
    /\ pos = 1
    /\ ~stream[1].done
    /\ stream[1].errors # <<>>
    /\ ~Truthy(has_extract_errors)

\* C5: during the streaming loop, quiet or not, once has_extract_errors is
\* truthy it stays truthy.
C5_MonotonicErrorFlag ==
    [][(pc = "Streaming" /\ Truthy(has_extract_errors))
           => Truthy(has_extract_errors')]_vars

\* The flag is still set after a terminal event with warnings and no errors
\* followed the event that set it.
C5_Witness ==
    /\ pc = "Streaming"
    /\ pos >= 2
    /\ Truthy(has_extract_errors)
    /\ stream[pos].done
    /\ stream[pos].warnings # <<>>
    /\ stream[pos].errors = <<>>

\* The source as the summary is to show it: the relative path of the source,
\* as text, against the base path of the run.
RelativeSource(xev) ==
    get_relative_path(SourceText(as_posixpath(xev.source)),
                      len_base_path, base_is_dir)

\* The ERROR and WARNING lines of one event with the relative source.
RelativeLines(xev) ==
    [i \in DOMAIN xev.errors |->
        [text |-> <<"ERROR extracting: ">> \o RelativeSource(xev)
                    \o <<": ", xev.errors[i]>>,
         fg |-> "red"]]
    \o
    [i \in DOMAIN xev.warnings |->
        [text |-> <<"WARNING extracting: ">> \o RelativeSource(xev)
                    \o <<": ", xev.warnings[i]>>,
         fg |-> "yellow"]]

RECURSIVE AllRelativeLines(_)
AllRelativeLines(events) ==
    IF events = <<>> THEN <<>>
    ELSE RelativeLines(Head(events)) \o AllRelativeLines(Tail(events))

\* C6: the ERROR and WARNING lines of the final summary show, for every
\* failing event, the relative path of its source against the base path of
\* the run, whatever the string type of the source.
C6_SummaryRelativeSource ==
    (pc = "Finalized" /\ ~quiet) =>
        LET lines == AllRelativeLines(extract_result_with_errors)
            n == Len(out)
        IN /\ n > Len(lines)
           /\ SubSeq(out, n - Len(lines), n - 1) = lines

\* The state of the aggregator of the design: observe applied to every event
\* of a stream in order.  The signature of an event is the event.
ObserveInit == [failures |-> <<>>, seenSignatures |-> {}, hadErrors |-> FALSE]

Observe(st, e) ==
    IF ~e.done \/ (e.warnings = <<>> /\ e.errors = <<>>) THEN st
    ELSE [failures |-> IF e \in st.seenSignatures THEN st.failures
                       ELSE Append(st.failures, e),
          seenSignatures |-> st.seenSignatures \cup {e},
          hadErrors |-> st.hadErrors \/ e.errors # <<>>]

RECURSIVE ObserveAll(_)
ObserveAll(s) ==
    IF s = <<>> THEN ObserveInit
    ELSE Observe(ObserveAll(SubSeq(s, 1, Len(s) - 1)), s[Len(s)])

\* C7 as stated: once the stream is exhausted the failures list, the seen
\* signatures and the error flag are those of observe applied to every event
\* in order, whether quiet is true or false.
C7_ObserveAlways ==
    pc = "Finalized" =>
        LET st == ObserveAll(stream)
        IN /\ extract_result_with_errors = st.failures
           /\ unique_extract_events_with_errors = {repr(e) : e \in st.seenSignatures}
           /\ Truthy(has_extract_errors) = st.hadErrors

\* C7 as amended: once the stream is exhausted the error flag is the one of
\* observe applied to every event in order, whether quiet is true or false;
\* the failures list and the seen signatures are those of observe when quiet
\* is false, and are empty when quiet is true.
C7_ObserveErrorsAlways ==
    pc = "Finalized" =>
        LET st == ObserveAll(stream)
        IN /\ Truthy(has_extract_errors) = st.hadErrors
           /\ ~quiet =>
                 /\ extract_result_with_errors = st.failures
                 /\ unique_extract_events_with_errors =
                        {repr(e) : e \in st.seenSignatures}
           /\ quiet =>
                 /\ extract_result_with_errors = <<>>
                 /\ unique_extract_events_with_errors = {}

\* A quiet run has ended on a stream for which observe keeps two failures
\* and sets the error flag.
C7_Witness ==
    /\ pc = "Finalized"
    /\ quiet
    /\ Len(ObserveAll(stream).failures) = 2
    /\ ObserveAll(stream).hadErrors

\* C8: with quiet set nothing is ever written to the diagnostic stream, and
\* the exit status is still 1 exactly when the stream holds an error-bearing
\* terminal event.
C8_QuietWritesNothing ==
    quiet =>
        /\ out = <<>>
        /\ pc = "Finalized" => (rc = <<1>>) = TerminalError(stream)

\* A quiet run has ended on a stream with warnings and errors in terminal
\* events.
C8_Witness ==
    /\ quiet
    /\ pc = "Finalized"
    /\ TerminalError(stream)
    /\ \E i \in DOMAIN stream : stream[i].done /\ stream[i].warnings # <<>>

\* C9: extract_event returns the empty string when quiet is set or there is
\* no event; in verbose mode the empty string for a terminal event and
\* otherwise 'Extracting: ' and the relative path of the source; in normal
\* mode 'Extracting: ' and the base name of the source, for every event.
C9_LiveLine ==
    (call.fn = "extract_event" /\ call.returned) =>
        IF call.quiet \/ call.item = <<>> THEN call.result = <<>>
        ELSE LET xev == call.item[1]
                 text == SourceText(xev.source)
             IN CASE call.verbose /\ xev.done -> call.result = <<>>
                  [] call.verbose /\ ~xev.done ->
                        call.result = <<"Extracting: ">>
                            \o get_relative_path(text, call.len_base_path,
                                                 call.base_is_dir)
                  [] OTHER ->
                        /\ call.result = <<"Extracting: ">> \o file_name(text)
                        /\ \A i \in 2 .. Len(call.result) : call.result[i] # "/"

\* Normal mode has rendered a terminal event of a source in a sub-directory.
C9_Witness ==
    /\ call.fn = "extract_event"
    /\ call.returned
    /\ ~call.quiet
    /\ ~call.verbose
    /\ call.item # <<>>
    /\ call.item[1].done
    /\ Len(call.item[1].source.chars) = 4
    /\ call.item[1].source.chars[3] = "/"
    /\ Len(call.result) = 2

\* The source of the example of the design, '/a/b/c/d.zip'.
ExampleSource ==
    [uni |-> TRUE,
     chars |-> <<"/", "a", "/", "b", "/", "c", "/", "d", ".", "z", "i", "p">>]

ExampleEvent ==
    [source |-> ExampleSource, done |-> FALSE, warnings |-> <<>>, errors |-> <<>>]

\* C10: for a directory base the result of get_relative_path is the path
\* without its first len_base_path characters and without the '/' that then
\* lead it (empty when len_base_path exceeds the length of the path); for a
\* file base it is the base name of the path; it never begins with '/'.
\* With base '/a/b' (a directory) the source '/a/b/c/d.zip' shows as
\* 'c/d.zip' in verbose mode and as 'd.zip' in normal mode.
C10_RelativePath ==
    /\ (call.fn = "get_relative_path" /\ call.returned) =>
          LET p == call.path
              r == call.result
              n == IF call.len_base_path > Len(p) THEN Len(p)
                   ELSE call.len_base_path
          IN /\ r = <<>> \/ r[1] # "/"
             /\ call.base_is_dir =>
                   \E k \in n .. Len(p) :
                       /\ r = SubSeq(p, k + 1, Len(p))
                       /\ \A i \in (n + 1) .. k : p[i] = "/"
             /\ ~call.base_is_dir =>
                   /\ r = file_name(p)
                   /\ \A i \in DOMAIN r : r[i] # "/"
    /\ extract_event(<<ExampleEvent>>, FALSE, TRUE, 4, TRUE)
          = <<"Extracting: ", "c", "/", "d", ".", "z", "i", "p">>
    /\ extract_event(<<ExampleEvent>>, FALSE, FALSE, 4, TRUE)
          = <<"Extracting: ", "d", ".", "z", "i", "p">>

\* get_relative_path has returned for a directory base longer than the path,
\* and for a path with several '/' after the base.
C10_Witness ==
    /\ call.fn = "get_relative_path"
    /\ call.returned
    /\ call.base_is_dir
    /\ \/ call.len_base_path > Len(call.path) /\ call.path # <<>>
       \/ /\ call.len_base_path = 1
          /\ call.path = <<"a", "/", "/", "a">>


\* The single file of the example of the design, '/a/b/file.zip'.
ExampleFile ==
    [uni |-> TRUE,
     chars |-> <<"/", "a", "/", "b", "/", "f", "i", "l", "e", ".", "z", "i", "p">>]

ExampleFileEvent ==
    [source |-> ExampleFile, done |-> FALSE, warnings |-> <<>>, errors |-> <<>>]

\* C11: when the input is not a directory, the line of an event that is not
\* terminal is the same in verbose mode and in normal mode: 'Extracting: '
\* and the base name of the source, with no path prefix.  With input
\* '/a/b/file.zip' the source '/a/b/file.zip' shows as 'file.zip' in both.
C11_SingleFileRoot ==
    /\ (/\ call.fn = "extract_event"
        /\ call.returned
        /\ ~call.quiet
        /\ call.item # <<>>
        /\ ~call.item[1].done
        /\ ~call.base_is_dir) =>
          /\ call.result
                = <<"Extracting: ">> \o file_name(SourceText(call.item[1].source))
          /\ call.result
                = extract_event(call.item, FALSE, ~call.verbose,
                                call.len_base_path, FALSE)
          /\ \A i \in 2 .. Len(call.result) : call.result[i] # "/"
    /\ \A v \in BOOLEAN :
          extract_event(<<ExampleFileEvent>>, FALSE, v, Len(ExampleFile.chars), FALSE)
             = <<"Extracting: ", "f", "i", "l", "e", ".", "z", "i", "p">>

\* Verbose mode has rendered, for a single-file input, an event that is not
\* terminal and whose source lies in a sub-directory.
C11_Witness ==
    /\ call.fn = "extract_event"
    /\ call.returned
    /\ ~call.quiet
    /\ call.verbose
    /\ ~call.base_is_dir
    /\ call.len_base_path = 1
    /\ call.item # <<>>
    /\ ~call.item[1].done
    /\ call.item[1].source.chars = <<"/", "a", "/", "a">>


\* C12: the final status line is red when an event of the failures list has
\* errors, else yellow when one has warnings, else green, in whatever order
\* the failing events arrived.
C12_SeverityTier ==
    (pc = "Finalized" /\ ~quiet) =>
        LET f == extract_result_with_errors
            any_errors == \E k \in DOMAIN f : f[k].errors # <<>>
            any_warnings == \E k \in DOMAIN f : f[k].warnings # <<>>
        IN /\ out # <<>>
           /\ out[Len(out)].text = <<"Extracting done.">>
           /\ any_errors => out[Len(out)].fg = "red"
           /\ (~any_errors /\ any_warnings) => out[Len(out)].fg = "yellow"
           /\ (~any_errors /\ ~any_warnings) => out[Len(out)].fg = "green"

\* The summary has been shown for an event with errors only followed by an
\* event with warnings only.
C12_Witness ==
    /\ pc = "Finalized"
    /\ ~quiet
    /\ Len(extract_result_with_errors) = 2
    /\ extract_result_with_errors[1].errors # <<>>
    /\ extract_result_with_errors[1].warnings = <<>>
    /\ extract_result_with_errors[2].errors = <<>>
    /\ extract_result_with_errors[2].warnings # <<>>


\* C13: for an input path that does not exist or is not readable the run is
\* rejected while Initializing: extract_archives is never called, no event
\* is consumed, nothing is aggregated, and the exit status is not 0.
C13_RejectedInput ==
    ~input_ok =>
        /\ pc \in {"Initializing", "Rejected"}
        /\ pos = 0
        /\ extract_result_with_errors = <<>>
        /\ ~Truthy(has_extract_errors)
        /\ \A i \in DOMAIN out : out[i] # Banner
        /\ pc = "Rejected" => (rc # <<>> /\ rc[1] # 0)
        /\ rc # <<>> => pc = "Rejected"

\* A run on an unreadable input has ended, for which the engine would have
\* had an error-bearing terminal event to yield.
C13_Witness ==
    /\ ~input_ok
    /\ pc = "Rejected"
    /\ TerminalError(stream)


\* The number of 'Extracting done.' lines written so far.
DoneLines(shown) ==
    Cardinality({i \in DOMAIN shown : shown[i].text = <<"Extracting done.">>})

\* C14: the run goes from Initializing to Streaming to Finalized and then
\* does nothing more; the base path is set only on leaving Initializing,
\* before any event is consumed; the position in the stream only advances,
\* one event at a time and only while Streaming, and is at the end of the
\* stream when the run is Finalized; the summary is written at most once,
\* on the step that ends Streaming with the stream exhausted.
C14_RunOrder ==
    /\ [][/\ pc = "Initializing" => pc' \in {"Initializing", "Streaming"}
          /\ pc = "Streaming" => pc' \in {"Streaming", "Finalized"}
          /\ pc = "Finalized" => FALSE
          /\ base_path' # base_path => (pc = "Initializing" /\ pos' = 0)
          /\ \/ pos' = pos
             \/ pos' = pos + 1 /\ pc = "Streaming" /\ pc' = "Streaming"
          /\ DoneLines(out') # DoneLines(out) =>
                (pc = "Streaming" /\ pc' = "Finalized" /\ pos = Len(stream))]_vars
    /\ [](pc = "Initializing" => pos = 0)
    /\ [](pos <= Len(stream))
    /\ [](pc = "Finalized" => pos = Len(stream))
    /\ [](DoneLines(out) <= 1)
    /\ []((pc = "Finalized" /\ ~quiet) => DoneLines(out) = 1)

\* A run that is not quiet has ended on a stream of several events.
C14_Witness ==
    /\ pc = "Finalized"
    /\ ~quiet
    /\ Len(stream) >= 2
    /\ pos = Len(stream)


\* An ERROR or WARNING line of the summary.
IsSummaryLine(l) == l.text[1] \in {"ERROR extracting: ", "WARNING extracting: "}

\* What an ERROR or WARNING line says, without the source it names.
LineMark(l) == <<l.text[1], l.text[Len(l.text)]>>

\* The marks of the lines of one event: its errors in order, then its
\* warnings in order.
EventMarks(e) ==
    [i \in DOMAIN e.errors |-> <<"ERROR extracting: ", e.errors[i]>>]
    \o [i \in DOMAIN e.warnings |-> <<"WARNING extracting: ", e.warnings[i]>>]

RECURSIVE AllMarks(_)
AllMarks(events) ==
    IF events = <<>> THEN <<>>
    ELSE EventMarks(Head(events)) \o AllMarks(Tail(events))

RECURSIVE MessageCount(_)
MessageCount(events) ==
    IF events = <<>> THEN 0
    ELSE Len(Head(events).errors) + Len(Head(events).warnings)
         + MessageCount(Tail(events))

\* C15: the output of a run that is not quiet ends with, for each event of
\* the failures list in arrival order, one ERROR line per error in the
\* event's order and then one WARNING line per warning, followed by exactly
\* one 'Extracting done.' line, the last line; the ERROR and WARNING lines
\* are as many as the errors and warnings of the deduplicated failures.
C15_SummaryOutput ==
    (pc = "Finalized" /\ ~quiet) =>
        LET lines == SelectSeq(out, IsSummaryLine)
            n == Len(out)
        IN /\ n > Len(lines)
           /\ out[n].text = <<"Extracting done.">>
           /\ DoneLines(out) = 1
           /\ \A i \in (n - Len(lines)) .. (n - 1) : IsSummaryLine(out[i])
           /\ [i \in DOMAIN lines |-> LineMark(lines[i])]
                 = AllMarks(extract_result_with_errors)
           /\ Len(lines) = MessageCount(ObserveAll(stream).failures)

\* The summary has been shown for two failing events, the first with
\* several errors and a warning.
C15_Witness ==
    /\ pc = "Finalized"
    /\ ~quiet
    /\ Len(extract_result_with_errors) = 2
    /\ Len(extract_result_with_errors[1].errors) = 2
    /\ extract_result_with_errors[1].warnings # <<>>
    /\ Len(stream) = 3


\* A live progress line.
IsLiveLine(l) == l.text[1] = "Extracting: "

RECURSIVE Rendered(_)
\* The live lines of a sequence of events, in order: the lines extract_event
\* returns for them, the empty ones left out.
Rendered(events) ==
    IF events = <<>> THEN <<>>
    ELSE LET line == extract_event(<<Head(events)>>, quiet, verbose,
                                   len_base_path, base_is_dir)
         IN (IF line = <<>> THEN <<>> ELSE <<line>>) \o Rendered(Tail(events))

\* C16: events are consumed one at a time in stream order, each rendered
\* (unless quiet) and aggregated before the next is taken: after pos events
\* the live lines are those of the first pos events in order, the failures
\* list and the error flag are those of the first pos events, and the
\* entries of the failures list come in the order of the stream.
C16_OneAtATime ==
    /\ [](pc \in {"Streaming", "Finalized"} =>
            LET consumed == SubSeq(stream, 1, pos)
                live == SelectSeq(out, IsLiveLine)
                f == extract_result_with_errors
            IN /\ Truthy(has_extract_errors) = ObserveAll(consumed).hadErrors
               /\ ~quiet =>
                     /\ [i \in DOMAIN live |-> live[i].text] = Rendered(consumed)
                     /\ f = ObserveAll(consumed).failures
                     /\ \A k1, k2 \in DOMAIN f :
                           k1 < k2 => FirstArrival(consumed, f[k1])
                                         < FirstArrival(consumed, f[k2]))
    /\ [][pos' # pos => (pos' = pos + 1 /\ pos < Len(stream))]_vars

\* Two of three events have been consumed by a run that is not quiet; both
\* were shown and both are failures.
C16_Witness ==
    /\ pc = "Streaming"
    /\ ~quiet
    /\ Len(stream) = 3
    /\ pos = 2
    /\ Len(extract_result_with_errors) = 2
    /\ Len(SelectSeq(out, IsLiveLine)) = 2


\* C17: whatever warnings and errors the events of the stream carry, the run
\* reaches the end of Finalizing and exits with status 0 or 1.
C17_RunEnds == <>(pc = "Finalized" /\ rc \in {<<0>>, <<1>>})

\* A run has ended on a stream all of whose events are terminal and carry
\* errors.
C17_Witness ==
    /\ pc = "Finalized"
    /\ rc # <<>>
    /\ Len(stream) >= 2
    /\ \A i \in DOMAIN stream : stream[i].done /\ stream[i].errors # <<>>


RECURSIVE LiveOutput(_)
\* The live lines as they are written to stderr.
LiveOutput(lines) ==
    IF lines = <<>> THEN <<>>
    ELSE <<[text |-> Head(lines), fg |-> "none"]>> \o LiveOutput(Tail(lines))

\* C18: the failures list, the seen signatures and the error flag are made
\* anew by each invocation: the exit status, the failures list and the whole
\* output of a second run in the same process are those its own stream and
\* options define, whatever the first run observed.
C18_FreshAggregate ==
    (prev # <<>> /\ pc = "Finalized") =>
        LET st == ObserveAll(stream)
        IN /\ rc = <<IF st.hadErrors THEN 1 ELSE 0>>
           /\ ~quiet =>
                 /\ extract_result_with_errors = st.failures
                 /\ unique_extract_events_with_errors =
                        {repr(e) : e \in st.seenSignatures}
                 /\ out = <<Banner>> \o LiveOutput(Rendered(stream))
                            \o display_extract_summary(st.failures,
                                   len_base_path, base_is_dir)

\* A second run that is not quiet has ended without any failure, after a
\* first run that exited with status 1.
C18_Witness ==
    /\ prev # <<>>
    /\ prev[1].rc = 1
    /\ pc = "Finalized"
    /\ ~quiet
    /\ stream # <<>>
    /\ ObserveAll(stream).failures = <<>>


\* C19: in a run that is not quiet, after any number of events, every event
\* of extract_result_with_errors is terminal and has warnings or errors, no
\* two of them have the same repr, and unique_extract_events_with_errors is
\* the set of their reprs, of the same size as the list.
C19_ListAndSignatures ==
    ~quiet =>
        LET f == extract_result_with_errors
        IN /\ \A k \in DOMAIN f :
                 f[k].done /\ (f[k].warnings # <<>> \/ f[k].errors # <<>>)
           /\ \A k1, k2 \in DOMAIN f : k1 # k2 => repr(f[k1]) # repr(f[k2])
           /\ unique_extract_events_with_errors = {repr(f[k]) : k \in DOMAIN f}
           /\ Cardinality(unique_extract_events_with_errors) = Len(f)

\* The loop has consumed a failing terminal event twice and a different one
\* once.
C19_Witness ==
    /\ pc = "Streaming"
    /\ ~quiet
    /\ pos = 3
    /\ stream[1] = stream[3]
    /\ Len(extract_result_with_errors) = 2

\* C20: in a run that is not quiet the final status line is red exactly when
\* the exit status is 1: has_errors computed again from the failures list
\* agrees with the has_extract_errors flag of the streaming loop.
C20_ColorMatchesExit ==
    /\ ~quiet =>
          (\E k \in DOMAIN extract_result_with_errors :
               extract_result_with_errors[k].errors # <<>>)
             = Truthy(has_extract_errors)
    /\ (pc = "Finalized" /\ ~quiet) =>
          /\ rc \in {<<0>>, <<1>>}
          /\ (out[Len(out)].fg = "red") = (rc = <<1>>)

\* A run that is not quiet has exited with status 1 after a failing event
\* with errors followed by a failing event without errors.
C20_Witness ==
    /\ pc = "Finalized"
    /\ ~quiet
    /\ rc = <<1>>
    /\ Len(extract_result_with_errors) = 2
    /\ extract_result_with_errors[2].errors = <<>>

=============================================================================
